---- MODULE Spec2Model ----
(***************************************************************************)
(* State-machine model of the SAT-only DDD ladder solver                   *)
(* (src/src/solvers/ddd/sat.rs, src/src/solvers/ddd/common.rs).            *)
(*                                                                         *)
(* Conventions.  Rust indices are 0-based; sequences here are 1-based, so  *)
(* a VisitId v of the code is v+1 here, incumbent_idx k is k+1, and so on. *)
(* Option<T> is a sequence of length 0 (None) or 1 (Some).                 *)
(* A literal is a non-zero integer: variable n is n, its negation -n.      *)
(* Variable 1 is reserved for the constant: T = Bool::Const(true),         *)
(* F = Bool::Const(false).  Fresh variables are numbered from 2.           *)
(***************************************************************************)
EXTENDS Integers, Sequences, FiniteSets, TLC

VARIABLES cfg, pc, occupations, nvars, clauses, touched_intervals,
          new_time_points, scl_fixed_prec_rows, conflict_vars,
          best_sol, best_src, lower_bound, upper_bound, budget_units, budget_tot,
          last_added_bound, bound_clauses, bound_assumption, bound_used,
          is_sat, model, sol_out, n_proposals, result, ret, stats, examined

vars == <<cfg, pc, occupations, nvars, clauses, touched_intervals,
          new_time_points, scl_fixed_prec_rows, conflict_vars,
          best_sol, best_src, lower_bound, upper_bound, budget_units, budget_tot,
          last_added_bound, bound_clauses, bound_assumption, bound_used,
          is_sat, model, sol_out, n_proposals, result, ret, stats, examined>>

-----------------------------------------------------------------------------
(* Bounds of the model *)

\* Largest finite time a ladder may hold; a pass that would insert a later
\* point is not taken.
MaxT == 10
\* Number of proposals the heuristic worker sends in one run.
MaxProposals == 2

-----------------------------------------------------------------------------
(* Program constants *)

I32Max == 2147483647
SCL_PAIRWISE_THRESHOLD == 5

-----------------------------------------------------------------------------
(* Literals *)

T == 1
F == -1
Not(l) == -l

None == <<>>
Some(x) == <<x>>
IsSome(o) == Len(o) = 1
Get(o) == o[1]

Min(a, b) == IF a < b THEN a ELSE b

\* i32 addition as the release build computes it (wrapping), written so that
\* no intermediate value leaves the 32-bit range.
Add32(a, b) ==
    IF b > 0 /\ a > I32Max - b THEN (a - I32Max - 1) + (b - I32Max - 1)
    ELSE IF b < 0 /\ a < (-I32Max - 1) - b THEN (a + I32Max + 1) + (b + I32Max + 1)
    ELSE a + b

RECURSIVE SeqSum(_)
SeqSum(s) == IF s = <<>> THEN 0 ELSE Head(s) + SeqSum(Tail(s))

-----------------------------------------------------------------------------
(* Problem instances (the read-only input of solve) *)

Visit(r, e, tt) == [resource_id |-> r, earliest |-> e, travel_time |-> tt]

\* Scenario 1: one train, two visits, no conflicts, zero delay cost.
Scenario1 ==
    [trains |-> << <<Visit(0, 0, 5), Visit(1, 0, 3)>> >>,
     conflicts |-> <<>>,
     ctype |-> "zero",
     heur |-> << << <<0, 5, 8>> >>, << <<0, 6, 9>> >>, << <<0, 5, 8>> >> >>]

\* Scenario 2: one train, two visits, the earliest times violate travel time.
Scenario2 ==
    [trains |-> << <<Visit(0, 0, 10), Visit(1, 5, 1)>> >>,
     conflicts |-> <<>>,
     ctype |-> "step",
     heur |-> << << <<0, 10, 11>> >> >>]

\* Scenario 3: two trains, one visit each on the self-conflicting resource 0.
Scenario3 ==
    [trains |-> << <<Visit(0, 0, 5)>>, <<Visit(0, 0, 5)>> >>,
     conflicts |-> << <<0, 0>> >>,
     ctype |-> "step",
     heur |-> << << <<5, 10>>, <<0, 5>> >> >>]

\* Scenario 3 plus an independent third train.
ThreeTrains ==
    [trains |-> << <<Visit(0, 0, 5)>>, <<Visit(0, 0, 5)>>, <<Visit(1, 0, 1)>> >>,
     conflicts |-> << <<0, 0>> >>,
     ctype |-> "step",
     heur |-> << << <<0, 5>>, <<10, 15>>, <<5, 6>> >>,
                 << <<10, 15>>, <<1, 6>>, <<10, 11>> >> >>]

\* The trains of Scenario 3 with a proposal that holds a point for train 2
\* between its earliest time and the other train's leave time.
LateProposal ==
    [trains |-> Scenario3.trains,
     conflicts |-> Scenario3.conflicts,
     ctype |-> "step",
     heur |-> << << <<6, 11>>, <<1, 6>> >> >>]

\* One train, two visits, and two proposals that delay the first visit.
DelayedEntry ==
    [trains |-> << <<Visit(0, 0, 5), Visit(1, 5, 3)>> >>,
     conflicts |-> <<>>,
     ctype |-> "step",
     heur |-> << << <<2, 8, 11>> >>, << <<5, 10, 13>> >> >>]

\* Two trains on resource 0, the first with a second visit whose earliest
\* time violates the travel time: one pass meets both kinds of conflict.
TravelAndResource ==
    [trains |-> << <<Visit(0, 0, 5), Visit(1, 1, 5)>>, <<Visit(0, 0, 5)>> >>,
     conflicts |-> << <<0, 0>> >>,
     ctype |-> "zero",
     heur |-> <<>>]

\* Conflict pairs naming resources no visit uses: resource 1, below the
\* largest visited id, and resource 3, above it.
UnusedResources ==
    [trains |-> << <<Visit(0, 0, 5)>>, <<Visit(2, 0, 5)>> >>,
     conflicts |-> << <<0, 1>>, <<0, 3>> >>,
     ctype |-> "step",
     heur |-> <<>>]

\* A visit whose travel time is i32::MAX: its successor can never start.
Unreachable ==
    [trains |-> << <<Visit(0, 0, I32Max), Visit(1, 0, 1)>> >>,
     conflicts |-> <<>>,
     ctype |-> "step",
     heur |-> <<>>]

ProblemNames ==
    {"Scenario1", "Scenario2", "Scenario3", "ThreeTrains", "LateProposal", "DelayedEntry",
     "TravelAndResource", "UnusedResources", "Unreachable"}

ProblemOf(name) ==
    CASE name = "Scenario1" -> Scenario1
      [] name = "Scenario2" -> Scenario2
      [] name = "Scenario3" -> Scenario3
      [] name = "ThreeTrains" -> ThreeTrains
      [] name = "LateProposal" -> LateProposal
      [] name = "DelayedEntry" -> DelayedEntry
      [] name = "TravelAndResource" -> TravelAndResource
      [] name = "UnusedResources" -> UnusedResources
      [] name = "Unreachable" -> Unreachable

\* The runs explored: every bound mode, precedence encoding and search mode
\* on each instance; ThreeTrains in the optimising mode only, LateProposal
\* in the enumerating mode with plain precedences only, DelayedEntry in the
\* enumerating mode with SCL rows only, TravelAndResource in the optimising
\* mode with permanent bound clauses, UnusedResources in one mode.
Configs ==
    {c \in [problem : ProblemNames, mode : {"AddClauses", "Assumptions"},
            prec : {"Plain", "Scl"}, search : {"UbSearch", "Invalid"}] :
        /\ c.problem = "ThreeTrains" => c.search = "UbSearch"
        /\ c.problem = "LateProposal" =>
               c.search = "Invalid" /\ c.mode = "AddClauses" /\ c.prec = "Plain"
        /\ c.problem = "DelayedEntry" =>
               c.search = "Invalid" /\ c.mode = "AddClauses" /\ c.prec = "Scl"
        /\ c.problem = "TravelAndResource" =>
               c.search = "UbSearch" /\ c.mode = "AddClauses"
        /\ c.problem = "UnusedResources" =>
               c.search = "UbSearch" /\ c.mode = "AddClauses" /\ c.prec = "Plain"}

problem == ProblemOf(cfg.problem)

NTrains(p) == Len(p.trains)
NVisitsOf(p, tr) == Len(p.trains[tr])

\* Number of visits of the trains before train tr.
RECURSIVE VisitsBefore(_, _)
VisitsBefore(p, tr) ==
    IF tr = 1 THEN 0 ELSE VisitsBefore(p, tr - 1) + NVisitsOf(p, tr - 1)

NVisits(p) == VisitsBefore(p, NTrains(p) + 1)
VisitIds(p) == 1..NVisits(p)

\* train_visit_ids[train_idx][visit_idx]
TrainVisitId(p, tr, vi) == VisitsBefore(p, tr) + vi

\* visits[visit_id] = (train_idx, visit_idx)
VisitsOf(p) ==
    [v \in VisitIds(p) |->
        LET tr == CHOOSE x \in 1..NTrains(p) :
                      VisitsBefore(p, x) < v /\ v <= VisitsBefore(p, x) + NVisitsOf(p, x)
        IN <<tr, v - VisitsBefore(p, tr)>>]

visits == VisitsOf(problem)
TrainOf(v) == visits[v][1]
VisitIdxOf(v) == visits[v][2]
VisitRec(v) == problem.trains[TrainOf(v)][VisitIdxOf(v)]

\* next_visit: Some(v + 1) when v is not the last visit of its train.
NextVisit(v) ==
    IF VisitIdxOf(v) + 1 <= NVisitsOf(problem, TrainOf(v)) THEN Some(v + 1) ELSE None

\* conflicts: resource -> the resources it conflicts with, in insertion order.
RECURSIVE ConflictsMap(_, _)
ConflictsMap(cs, r) ==
    IF cs = <<>> THEN <<>>
    ELSE LET a == Head(cs)[1]
             b == Head(cs)[2]
             here == (IF a = r THEN <<b>> ELSE <<>>)
                     \o (IF a # b /\ b = r THEN <<a>> ELSE <<>>)
         IN here \o ConflictsMap(Tail(cs), r)

\* resource_visits.len(): grown to the largest visited resource id plus one.
ResourceVisitsLen(p) ==
    LET ids == {p.trains[tr][vi].resource_id :
                    <<tr, vi>> \in {x \in (1..NTrains(p)) \X (1..NVisits(p)) :
                                        x[2] <= NVisitsOf(p, x[1])}}
    IN IF ids = {} THEN 0
       ELSE (CHOOSE m \in ids : \A x \in ids : x <= m) + 1

\* resource_visits[r]: the visits on resource r, in visit-id order.
RECURSIVE ResourceVisitsFrom(_, _)
ResourceVisitsFrom(r, v) ==
    IF v > NVisits(problem) THEN <<>>
    ELSE (IF VisitRec(v).resource_id = r THEN <<v>> ELSE <<>>)
         \o ResourceVisitsFrom(r, v + 1)

ResourceVisits(r) == ResourceVisitsFrom(r, 1)

-----------------------------------------------------------------------------
(* External cost functions: Problem::cost and Train::visit_delay_cost *)

CostStep == 5

\* visit_delay_cost(cost_type, visit_idx, t): non-negative, monotone in t.
visit_delay_cost(v, t) ==
    IF problem.ctype = "zero" \/ t <= VisitRec(v).earliest THEN 0
    ELSE (t - VisitRec(v).earliest) \div CostStep

\* cost(schedule, cost_type): the sum of the visits' delay costs.
cost(sol) ==
    SeqSum([v \in VisitIds(problem) |->
                visit_delay_cost(v, sol[TrainOf(v)][VisitIdxOf(v)])])

-----------------------------------------------------------------------------
(* Occ (common.rs) *)

incumbent_time(o) == o.delays[o.incumbent_idx][2]

\* Variant of PartitionPoint whose predicate is *t0 <= t.
PartitionPointLe(delays, t) ==
    Cardinality({i \in 1..Len(delays) : delays[i][2] <= t})

\* slice::partition_point(|(_, t0)| *t0 < t) on the sorted ladder (0-based).
PartitionPoint(delays, t) ==
    Cardinality({i \in 1..Len(delays) : delays[i][2] < t})

\* Vec::insert(idx, x) with a 0-based idx.
InsertAt(s, idx, x) == SubSeq(s, 1, idx) \o <<x>> \o SubSeq(s, idx + 1, Len(s))

\* The encoder state threaded through a pass: occ = occupations, nv = the
\* last allocated variable, cl = the solver's clauses, ntp = new_time_points,
\* rows = scl_fixed_prec_rows, cv = conflict_vars, dtp =
\* deconflicted_train_pairs, panic = an assertion or index check failed,
\* over = a point later than MaxT was requested, seen = the overlaps the
\* resource pass met, in order, each with visit_id, other_visit and whether
\* it was processed (counted in stats.n_conflict) or skipped.
Stop(S) == S.panic \/ S.over

\* Variant of time_point whose upward chain clause names the inserted pair
\* itself (delays[idx]) instead of its successor (delays[idx + 1]).
time_point_chain_off_by_one(S, v, t) ==
    LET d == S.occ[v].delays
        idx == Cardinality({i \in 1..Len(d) : d[i][2] < t})
    IN IF S.panic \/ S.over THEN [S |-> S, lit |-> F, is_new |-> FALSE]
       ELSE IF ~(idx > 0 \/ t = d[1][2]) \/ ~(idx < Len(d))
               \/ ~(idx = 0 \/ d[idx][2] < t) \/ ~(d[idx + 1][2] >= t)
       THEN [S |-> [S EXCEPT !.panic = TRUE], lit |-> F, is_new |-> FALSE]
       ELSE IF d[idx + 1][2] = t \/ (idx > 0 /\ d[idx][2] = t)
       THEN [S |-> S, lit |-> d[idx + 1][1], is_new |-> FALSE]
       ELSE IF t > MaxT
       THEN [S |-> [S EXCEPT !.over = TRUE], lit |-> F, is_new |-> FALSE]
       ELSE LET var == S.nv + 1
                nd == SubSeq(d, 1, idx) \o << <<var, t>> >> \o SubSeq(d, idx + 1, Len(d))
                down == IF idx > 0 THEN {{-var, nd[idx][1]}} ELSE {}
                up == IF idx < Len(nd) THEN {{-nd[idx + 1][1], var}} ELSE {}
            IN [S |-> [S EXCEPT !.occ[v].delays = nd,
                                !.nv = var,
                                !.cl = @ \cup down \cup up],
                lit |-> var, is_new |-> TRUE]

\* Occ::time_point on occupation v: [S, lit, is_new].
time_point(S, v, t) ==
    LET d == S.occ[v].delays
        idx == PartitionPoint(d, t)
    IN IF Stop(S) THEN [S |-> S, lit |-> F, is_new |-> FALSE]
       ELSE IF ~(idx > 0 \/ t = d[1][2]) \/ ~(idx < Len(d))
               \/ ~(idx = 0 \/ d[idx][2] < t) \/ ~(d[idx + 1][2] >= t)
       THEN [S |-> [S EXCEPT !.panic = TRUE], lit |-> F, is_new |-> FALSE]
       ELSE IF d[idx + 1][2] = t \/ (idx > 0 /\ d[idx][2] = t)
       THEN [S |-> S, lit |-> d[idx + 1][1], is_new |-> FALSE]
       ELSE IF t > MaxT
       THEN [S |-> [S EXCEPT !.over = TRUE], lit |-> F, is_new |-> FALSE]
       ELSE LET var == S.nv + 1
                nd == InsertAt(d, idx, <<var, t>>)
                down == IF idx > 0 THEN {{Not(var), nd[idx][1]}} ELSE {}
                up == IF idx < Len(nd) THEN {{Not(nd[idx + 2][1]), var}} ELSE {}
            IN [S |-> [S EXCEPT !.occ[v].delays = nd,
                                !.nv = var,
                                !.cl = @ \cup down \cup up],
                lit |-> var, is_new |-> TRUE]

\* Variant of PairwiseRows that starts at i = 1 instead of i = 0.
PairwiseRowsSkipFirst(d, in_var, idx) ==
    {{Not(in_var), Not(d[i][1]), d[i + 1][1]} : i \in 2..idx}

\* The clauses of the pairwise form: in_var /\ lit_i -> lit_{i+1}, i in [0, idx).
PairwiseRows(d, in_var, idx) ==
    {{Not(in_var), Not(d[i][1]), d[i + 1][1]} : i \in 1..idx}

\* The row of add_fixed_precedence_scl once r = time_point(next_visit, req_t)
\* is known (sat.rs 903-924).
SclRow(r, next_visit, in_var, req_t) ==
    LET d == r.S.occ[next_visit].delays
        idx == PartitionPoint(d, req_t)
        rowcl == IF idx <= SCL_PAIRWISE_THRESHOLD
                 THEN PairwiseRows(d, in_var, idx)
                 ELSE {{Not(in_var), r.lit}}
    IN IF Stop(r.S) THEN r.S
       ELSE [r.S EXCEPT
               !.cl = @ \cup rowcl,
               !.ntp = IF r.is_new
                       THEN Append(@, <<next_visit, r.lit, req_t>>)
                       ELSE @]

\* add_fixed_precedence_scl
add_fixed_precedence_scl(S, visit_id, in_var, in_t) ==
    IF Stop(S) \/ <<visit_id, in_t>> \in S.rows THEN S
    ELSE LET S0 == [S EXCEPT !.rows = @ \cup {<<visit_id, in_t>>}]
             next_visit == visit_id + 1
             req_t == Add32(in_t, VisitRec(visit_id).travel_time)
         IN IF NextVisit(visit_id) = None THEN S0
            ELSE IF req_t <= S0.occ[next_visit].delays[1][2] THEN S0
            ELSE SclRow(time_point(S0, next_visit, req_t), next_visit, in_var, req_t)

-----------------------------------------------------------------------------
(* solve_debug_with_mode: the conflict pass *)

\* Variant of extract_solution that closes each train with the last visit's
\* arrival instead of arrival plus travel time.
extract_solution_no_leave(occ) ==
    [tr \in 1..NTrains(problem) |->
        LET n == NVisitsOf(problem, tr)
            times == [vi \in 1..n |-> incumbent_time(occ[TrainVisitId(problem, tr, vi)])]
        IN Append(times, times[n])]

\* extract_solution: the incumbent times of each train's visits, followed by
\* the last arrival plus the last visit's travel time.
extract_solution(occ) ==
    [tr \in 1..NTrains(problem) |->
        LET n == NVisitsOf(problem, tr)
            times == [vi \in 1..n |-> incumbent_time(occ[TrainVisitId(problem, tr, vi)])]
        IN Append(times, Add32(times[n], problem.trains[tr][n].travel_time))]

\* Variant of PlainPrecedence that creates the time point but not the clause.
PlainPrecedenceNoClause(r, t1_in_var, next_visit, new_t) ==
    IF Stop(r.S) THEN r.S
    ELSE [r.S EXCEPT
            !.ftravel = TRUE,
            !.ntp = IF r.is_new
                    THEN Append(@, <<next_visit, r.lit, new_t>>)
                    ELSE @]

\* The plain precedence clause once r = time_point(next_visit, new_t) is
\* known (sat.rs 441-455).
PlainPrecedence(r, t1_in_var, next_visit, new_t) ==
    IF Stop(r.S) THEN r.S
    ELSE [r.S EXCEPT
            !.ftravel = TRUE,
            !.cl = @ \cup {{Not(t1_in_var), r.lit}},
            !.ntp = IF r.is_new
                    THEN Append(@, <<next_visit, r.lit, new_t>>)
                    ELSE @]

\* Travel-time check of one touched visit (sat.rs 392-457).
TravelVisit(S, visit_id) ==
    IF Stop(S) \/ NextVisit(visit_id) = None THEN S
    ELSE LET next_visit == visit_id + 1
             v1 == S.occ[visit_id]
             t1_in == incumbent_time(v1)
             t1_out == incumbent_time(S.occ[next_visit])
             travel == VisitRec(visit_id).travel_time
         IN IF ~(Add32(t1_in, travel) > t1_out) THEN S
            ELSE IF cfg.prec = "Scl"
            THEN [add_fixed_precedence_scl(S, visit_id,
                                           v1.delays[v1.incumbent_idx][1], t1_in)
                    EXCEPT !.ftravel = TRUE]
            ELSE PlainPrecedence(time_point(S, next_visit, Add32(t1_in, travel)),
                                 v1.delays[v1.incumbent_idx][1], next_visit,
                                 Add32(t1_in, travel))

RECURSIVE TravelPass(_, _, _)
TravelPass(S, touched, i) ==
    IF i > Len(touched) THEN S
    ELSE TravelPass(TravelVisit(S, touched[i]), touched, i + 1)

\* The boundary literal of a visit's successor, or TRUE (sat.rs 565-570).
OutLit(S, nv) ==
    IF nv = None THEN T
    ELSE S.occ[Get(nv)].delays[S.occ[Get(nv)].incumbent_idx][1]

\* Variant of Choose that caches the same literal under both orderings.
ChooseSamePolarity(S, pa, pb) ==
    IF <<pa, pb>> \in DOMAIN S.cv THEN [S |-> S, lit |-> S.cv[<<pa, pb>>]]
    ELSE LET new_var == S.nv + 1
         IN [S |-> [S EXCEPT
                      !.nv = new_var,
                      !.cv = [k \in DOMAIN S.cv \cup {<<pa, pb>>, <<pb, pa>>} |->
                                 IF k \in {<<pa, pb>>, <<pb, pa>>} THEN new_var
                                 ELSE S.cv[k]]],
             lit |-> new_var]

\* conflict_vars.get(&(pa, pb)), allocating the pair on a miss (sat.rs 576-582).
Choose(S, pa, pb) ==
    IF <<pa, pb>> \in DOMAIN S.cv THEN [S |-> S, lit |-> S.cv[<<pa, pb>>]]
    ELSE LET new_var == S.nv + 1
         IN [S |-> [S EXCEPT
                      !.nv = new_var,
                      !.cv = [k \in DOMAIN S.cv \cup {<<pa, pb>>, <<pb, pa>>} |->
                                 IF k = <<pa, pb>> THEN new_var
                                 ELSE IF k = <<pb, pa>> THEN Not(new_var)
                                 ELSE S.cv[k]]],
             lit |-> new_var]

\* Variant of ConflictClauses that emits only the clause of the first order.
ConflictClausesFirstOnly(choose, t1_out_lit, t2_out_lit, delay_t1, delay_t2) ==
    {{Not(choose), Not(t1_out_lit), delay_t2}}

\* The two clauses of a resource conflict under USE_CHOICE_VAR (sat.rs 584-585).
ConflictClauses(choose, t1_out_lit, t2_out_lit, delay_t1, delay_t2) ==
    {{Not(choose), Not(t1_out_lit), delay_t2},
     {choose, Not(t2_out_lit), delay_t1}}

\* The end of a conflict (sat.rs 562-591): the out literals, the choice
\* variable and the two clauses, on the state S2 left by the time points and
\* the SCL rows.
ConflictEncode(S2, visit_id, other_visit, delay_t1, delay_t2) ==
    LET t1_out_lit == OutLit(S2, NextVisit(visit_id))
        t2_out_lit == OutLit(S2, NextVisit(other_visit))
        c == Choose(S2, visit_id, other_visit)
    IN IF Stop(S2) THEN S2
       ELSE [c.S EXCEPT !.cl = @ \cup ConflictClauses(c.lit, t1_out_lit, t2_out_lit,
                                                       delay_t1, delay_t2)]

\* The middle of a conflict (sat.rs 529-560): the pushes to new_time_points
\* and the SCL rows, r2 and r1 being the two time_point results.
ConflictRows(r2, r1, visit_id, other_visit, t1_out, t2_out) ==
    LET n1 == IF r1.is_new THEN <<  <<visit_id, r1.lit, t2_out>>  >> ELSE <<>>
        n2 == IF r2.is_new THEN <<  <<other_visit, r2.lit, t1_out>>  >> ELSE <<>>
        S1 == IF Stop(r1.S) THEN r1.S
              ELSE [r1.S EXCEPT !.fres = TRUE, !.ntp = @ \o n1 \o n2]
    IN ConflictEncode(IF cfg.prec = "Scl"
                      THEN add_fixed_precedence_scl(
                               add_fixed_precedence_scl(S1, visit_id, r1.lit, t2_out),
                               other_visit, r2.lit, t1_out)
                      ELSE S1,
                      visit_id, other_visit, r1.lit, r2.lit)

\* The second time point of a conflict (sat.rs 526-527), r2 being the first.
ConflictPoints(r2, visit_id, other_visit, t1_out, t2_out) ==
    ConflictRows(r2, time_point(r2.S, visit_id, t2_out),
                 visit_id, other_visit, t1_out, t2_out)

\* Variant of ProcessConflict that gives each visit its own leave time.
ProcessConflictOwnLeave(S, visit_id, other_visit, t1_out, t2_out) ==
    ConflictPoints(time_point(S, other_visit, t2_out),
                   visit_id, other_visit, t2_out, t1_out)

\* A detected overlap of visit_id and other_visit (sat.rs 521-591).
ProcessConflict(S, visit_id, other_visit, t1_out, t2_out) ==
    ConflictPoints(time_point(S, other_visit, t1_out),
                   visit_id, other_visit, t1_out, t2_out)

\* An overlap met by the resource pass (sat.rs 510-522).
Overlap(visit_id, other_visit, processed) ==
    [visit_id |-> visit_id, other_visit |-> other_visit, processed |-> processed]

\* Variant of DedupInsert that records the scanned order only.
DedupInsertOneOrder(dtp, a, b) ==
    IF <<a, b>> \in dtp THEN [dtp |-> dtp, skip |-> TRUE]
    ELSE [dtp |-> dtp \cup {<<a, b>>}, skip |-> FALSE]

\* !insert((a, b)) || !insert((b, a)) on deconflicted_train_pairs, with
\* short-circuit evaluation: [dtp, skip].
DedupInsert(dtp, a, b) ==
    IF <<a, b>> \in dtp THEN [dtp |-> dtp, skip |-> TRUE]
    ELSE IF <<b, a>> \in dtp \cup {<<a, b>>}
    THEN [dtp |-> dtp \cup {<<a, b>>}, skip |-> TRUE]
    ELSE [dtp |-> dtp \cup {<<a, b>>, <<b, a>>}, skip |-> FALSE]

\* One other_visit of the inner loop (sat.rs 482-592): [S, retain].
ResOther(R, visit_id, t1_in, t1_out, other_visit) ==
    LET S == R.S
        train_idx == TrainOf(visit_id)
        other_train_idx == TrainOf(other_visit)
        t2_in == incumbent_time(S.occ[other_visit])
        other_next_visit == NextVisit(other_visit)
        t2_out == IF other_next_visit # None
                  THEN incumbent_time(S.occ[Get(other_next_visit)])
                  ELSE Add32(t2_in, VisitRec(other_visit).travel_time)
        dd == DedupInsert(S.dtp, train_idx, other_train_idx)
    IN IF Stop(S) \/ visit_id = other_visit \/ other_train_idx = train_idx THEN R
       ELSE IF t1_out <= t2_in \/ t2_out <= t1_in THEN R
       ELSE IF dd.skip
       THEN [S |-> [S EXCEPT !.dtp = dd.dtp,
                             !.seen = Append(@, Overlap(visit_id, other_visit, FALSE))],
             retain |-> TRUE]
       ELSE [S |-> ProcessConflict(
                       [S EXCEPT !.dtp = dd.dtp,
                                 !.seen = Append(@, Overlap(visit_id, other_visit, TRUE))],
                       visit_id, other_visit, t1_out, t2_out),
             retain |-> R.retain]

RECURSIVE ResOthers(_, _, _, _, _, _)
ResOthers(R, visit_id, t1_in, t1_out, others, k) ==
    IF k > Len(others) THEN R
    ELSE ResOthers(ResOther(R, visit_id, t1_in, t1_out, others[k]),
                   visit_id, t1_in, t1_out, others, k + 1)

\* The loop over the conflicting resources of visit_id (sat.rs 477-593).
RECURSIVE ResResources(_, _, _, _, _)
ResResources(R, visit_id, t1_in, crs, j) ==
    IF j > Len(crs) \/ Stop(R.S) THEN R
    ELSE LET nx == NextVisit(visit_id)
             t1_out == IF nx # None THEN incumbent_time(R.S.occ[Get(nx)])
                       ELSE Add32(t1_in, VisitRec(visit_id).travel_time)
         IN IF crs[j] >= ResourceVisitsLen(problem)
            THEN [R EXCEPT !.S.panic = TRUE]
            ELSE ResResources(ResOthers(R, visit_id, t1_in, t1_out,
                                        ResourceVisits(crs[j]), 1),
                              visit_id, t1_in, crs, j + 1)

\* Vec::retain keeps the element when the closure returned true.
Retain(R, kept, visit_id) ==
    [S |-> R.S, kept |-> IF R.retain THEN Append(kept, visit_id) ELSE kept]

\* The closure of touched_intervals.retain for one visit, on P = [S, kept].
ResVisit(P, visit_id) ==
    Retain(ResResources([S |-> P.S, retain |-> FALSE], visit_id,
                        incumbent_time(P.S.occ[visit_id]),
                        ConflictsMap(problem.conflicts, VisitRec(visit_id).resource_id),
                        1),
           P.kept, visit_id)

\* touched_intervals.retain(...) (sat.rs 460-597) on P = [S, kept].
RECURSIVE ResourcePass(_, _, _)
ResourcePass(P, touched, i) ==
    IF i > Len(touched) THEN P
    ELSE ResourcePass(ResVisit(P, touched[i]), touched, i + 1)

-----------------------------------------------------------------------------
(* solve_debug_with_mode: heuristic ingest and the solution branch *)

\* The push of inject_solution_timepoints_sat after r = time_point(v, t)
\* (sat.rs 186-189).
Injected(r, v, t) ==
    IF r.is_new THEN [r.S EXCEPT !.ntp = Append(@, <<v, r.lit, t>>)] ELSE r.S

\* inject_solution_timepoints_sat: one time_point per visit of the proposal.
RECURSIVE inject_solution_timepoints_sat(_, _, _)
inject_solution_timepoints_sat(S, sol, v) ==
    IF v > NVisits(problem) THEN S
    ELSE inject_solution_timepoints_sat(
             Injected(time_point(S, v, sol[TrainOf(v)][VisitIdxOf(v)]),
                      v, sol[TrainOf(v)][VisitIdxOf(v)]),
             sol, v + 1)

\* Variant of UpdateBest that also replaces on an equal cost.
UpdateBestOnTie(best, c, sol) ==
    IF best = None \/ c <= Get(best).cost THEN Some([cost |-> c, sol |-> sol]) ELSE best

\* best_sol after an offer of (c, sol): replaced only by a strictly smaller cost.
UpdateBest(best, c, sol) ==
    IF best = None \/ c < Get(best).cost THEN Some([cost |-> c, sol |-> sol]) ELSE best

\* Variant of TightenUb that takes the candidate without the min.
TightenUbLast(ub, c) == Some(c - 1)

\* upper_bound after a schedule of cost c (UbSearch): min(ub, c - 1).
TightenUb(ub, c) ==
    IF ub = None THEN Some(c - 1) ELSE Some(Min(Get(ub), c - 1))

\* The try_recv loop (sat.rs 370-385) over the queued proposals:
\* D = [S, best, src, ub].
RECURSIVE Drain(_, _)
Drain(D, queue) ==
    IF queue = <<>> THEN D
    ELSE LET m == Head(queue)
             better == D.best = None \/ m.cost < Get(D.best).cost
         IN Drain([S |-> inject_solution_timepoints_sat(D.S, m.sol, 1),
                   best |-> UpdateBest(D.best, m.cost, m.sol),
                   src |-> IF better THEN "heuristic" ELSE D.src,
                   ub |-> IF cfg.search = "UbSearch" THEN TightenUb(D.ub, m.cost)
                          ELSE D.ub],
                  Tail(queue))

\* Variant of InvalidClause without the literals of the successor points.
RECURSIVE InvalidClauseAtOnly(_, _)
InvalidClauseAtOnly(occ, v) ==
    IF v > NVisits(problem) THEN {}
    ELSE {Not(occ[v].delays[occ[v].incumbent_idx][1])}
         \cup InvalidClauseAtOnly(occ, v + 1)

\* The blocking clause of Invalid mode (sat.rs 656-665).
RECURSIVE InvalidClause(_, _)
InvalidClause(occ, v) ==
    IF v > NVisits(problem) THEN {}
    ELSE LET idx == occ[v].incumbent_idx
             here == {Not(occ[v].delays[idx][1])}
                     \cup (IF idx + 1 <= Len(occ[v].delays)
                           THEN {occ[v].delays[idx + 1][1]} ELSE {})
         IN here \cup InvalidClause(occ, v + 1)

\* The encoder state at the start of a pass.
Enc ==
    [occ |-> occupations, nv |-> nvars, cl |-> clauses, ntp |-> new_time_points,
     rows |-> scl_fixed_prec_rows, cv |-> conflict_vars, dtp |-> {},
     panic |-> FALSE, over |-> FALSE, ftravel |-> FALSE, fres |-> FALSE,
     seen |-> <<>>]

\* do_output_stats(..., lb, ub): the two bounds it reports.
Stats(lb, ub) == Some([lb |-> lb, ub |-> ub])

-----------------------------------------------------------------------------
(* solve_debug_with_mode: cost encoding and the budget constraint *)

\* Variant of ExtendCost that pushes only the last literal on budget_units.
RECURSIVE ExtendCostLastUnit(_, _, _)
ExtendCostLastUnit(E, visit, c) ==
    IF Len(E.occ[visit].cost) > c THEN E
    ELSE LET prev_cost_var == E.occ[visit].cost[Len(E.occ[visit].cost)]
             next_cost_var == E.nv + 1
         IN ExtendCostLastUnit([E EXCEPT
                          !.nv = next_cost_var,
                          !.cl = @ \cup {{Not(next_cost_var), prev_cost_var}},
                          !.occ[visit].cost = Append(@, next_cost_var),
                          !.units = IF Len(E.occ[visit].cost) = c
                                    THEN Append(@, next_cost_var) ELSE @],
                       visit, c)

\* The loop `for cost in occupations[visit].cost.len()..=new_timepoint_cost`
\* (sat.rs 686-697) on E = [occ, nv, cl, units].
RECURSIVE ExtendCost(_, _, _)
ExtendCost(E, visit, c) ==
    IF Len(E.occ[visit].cost) > c THEN E
    ELSE LET prev_cost_var == E.occ[visit].cost[Len(E.occ[visit].cost)]
             next_cost_var == E.nv + 1
         IN ExtendCost([E EXCEPT
                          !.nv = next_cost_var,
                          !.cl = @ \cup {{Not(next_cost_var), prev_cost_var}},
                          !.occ[visit].cost = Append(@, next_cost_var),
                          !.units = Append(@, next_cost_var)],
                       visit, c)

\* Variant of AnchorClause with the implication reversed.
AnchorClauseConverse(new_timepoint_var, cost_var) ==
    {new_timepoint_var, Not(cost_var)}

\* The anchoring clause new_timepoint_var -> cost[new_timepoint_cost].
AnchorClause(new_timepoint_var, cost_var) == {Not(new_timepoint_var), cost_var}

\* new_time_points.drain(..) (sat.rs 677-712).
RECURSIVE EncodeCosts(_, _)
EncodeCosts(E, ntp) ==
    IF ntp = <<>> THEN E
    ELSE LET visit == Head(ntp)[1]
             new_timepoint_var == Head(ntp)[2]
             new_timepoint_cost == visit_delay_cost(visit, Head(ntp)[3])
             E1 == ExtendCost(E, visit, new_timepoint_cost)
         IN EncodeCosts(
                IF new_timepoint_cost > 0
                THEN [E1 EXCEPT !.cl = @ \cup
                        {AnchorClause(new_timepoint_var,
                                      E1.occ[visit].cost[new_timepoint_cost + 1])}]
                ELSE E,
                Tail(ntp))

\* Variant of TargetUb that rounds the midpoint up.
TargetUbCeil(lb, ub) ==
    IF cfg.mode = "AddClauses" THEN ub ELSE (lb + ub + 1) \div 2

\* target_ub (sat.rs 738-741).
TargetUb(lb, ub) ==
    IF cfg.mode = "AddClauses" THEN ub ELSE (lb + ub) \div 2

\* need_rebuild (sat.rs 745-747).
NeedRebuild(tot, units_len, ub_usize) ==
    tot = None \/ Get(tot).len # units_len \/ Get(tot).max_bound < ub_usize

\* The unit clause of AddClauses mode is added when the bound value changes
\* (sat.rs 767): whether the clause on the current totalizer is added.
AddsBoundClause(last, ub_usize) == last # Some(ub_usize)

-----------------------------------------------------------------------------
(* The SAT solver (satcoder): clauses persist, assumptions are transient.   *)
(* Totalizer::count(units, B) yields rhs with rhs[k] = "at least k+1 of the *)
(* units are true"; the literal !rhs[B] over the first len units is kept as *)
(* the pair <<len, B>>.                                                     *)

Val(a, l) ==
    IF l = T THEN TRUE
    ELSE IF l = F THEN FALSE
    ELSE IF l > 0 THEN l \in a
    ELSE (-l) \notin a

CountTrue(a, units, len) == Cardinality({i \in 1..len : Val(a, units[i])})

AtMost(a, units, b) == CountTrue(a, units, b[1]) <= b[2]

\* The clauses left after literal l is made true.
Assign(cl, l) == {c \ {Not(l)} : c \in {c0 \in cl : l \notin c0}}

\* All assignments to the variables n..nv (as the set of true variables,
\* joined to a) that satisfy the clauses cl: a case split on each variable,
\* cut off where a clause has become empty.
RECURSIVE Assignments(_, _, _, _)
Assignments(cl, n, nv, a) ==
    IF {} \in cl THEN {}
    ELSE IF n > nv THEN {a}
    ELSE Assignments(Assign(cl, n), n + 1, nv, a \cup {n})
         \cup Assignments(Assign(cl, Not(n)), n + 1, nv, a)

\* The assignments solve_with_assumptions may return as a model.
ModelsOf(cl, nv, units, bcl, assumption) ==
    {a \in Assignments(Assign(cl, T), 2, nv, {}) :
        /\ \A b \in bcl : AtMost(a, units, b)
        /\ \A i \in 1..Len(assumption) : AtMost(a, units, assumption[i])}

Models == ModelsOf(clauses, nvars, budget_units, bound_clauses, bound_assumption)

\* The variables of the delay ladders.
LadderVars(occ) ==
    UNION {{occ[v].delays[i][1] : i \in 1..Len(occ[v].delays)} : v \in DOMAIN occ}
        \ {T, F}

\* The incumbent walk of one occupation (sat.rs 799-806).
RECURSIVE WalkUp(_, _, _)
WalkUp(a, delays, idx) ==
    IF Val(a, delays[idx + 1][1]) THEN WalkUp(a, delays, idx + 1) ELSE idx

RECURSIVE WalkDown(_, _, _)
WalkDown(a, delays, idx) ==
    IF ~Val(a, delays[idx][1]) THEN WalkDown(a, delays, idx - 1) ELSE idx

Walk(a, o) == WalkDown(a, o.delays, WalkUp(a, o.delays, o.incumbent_idx))

\* The pushes to touched_intervals (sat.rs 808-817), visit by visit.
RECURSIVE Touch(_, _, _, _)
Touch(touched, occ, new_idx, v) ==
    IF v > NVisits(problem) THEN touched
    ELSE LET moved == new_idx[v] # occ[v].incumbent_idx
             prev_visit == v - 1
             withprev == IF VisitIdxOf(v) > 1
                            /\ (touched = <<>> \/ touched[Len(touched)] # prev_visit)
                         THEN Append(touched, prev_visit) ELSE touched
         IN Touch(IF moved THEN Append(withprev, v) ELSE touched, occ, new_idx, v + 1)

-----------------------------------------------------------------------------
(* Initial state: solve_debug_with_mode up to the loop (sat.rs 230-340) *)

InitOcc(v) ==
    [cost |-> <<T>>,
     delays |-> << <<T, VisitRec(v).earliest>>, <<F, I32Max>> >>,
     incumbent_idx |-> 1]

\* SEED_SCL_FROM_EARLIEST (sat.rs 307-327).
RECURSIVE SeedScl(_, _)
SeedScl(S, v) ==
    IF v > NVisits(problem) THEN S
    ELSE IF NextVisit(v) = None THEN SeedScl(S, v + 1)
    ELSE SeedScl(add_fixed_precedence_scl(S, v, S.occ[v].delays[1][1],
                                          S.occ[v].delays[1][2]),
                 v + 1)

InitEnc ==
    LET S0 == [occ |-> [v \in VisitIds(problem) |-> InitOcc(v)],
               nv |-> 1, cl |-> {},
               ntp |-> [v \in VisitIds(problem) |-> <<v, T, VisitRec(v).earliest>>],
               rows |-> {}, cv |-> <<>>, dtp |-> {},
               panic |-> FALSE, over |-> FALSE, ftravel |-> FALSE, fres |-> FALSE,
     seen |-> <<>>]
    IN IF cfg.prec = "Scl" THEN SeedScl(S0, 1) ELSE S0

Init ==
    /\ cfg \in Configs
    /\ pc = "top"
    /\ occupations = InitEnc.occ
    /\ nvars = InitEnc.nv
    /\ clauses = InitEnc.cl
    /\ new_time_points = InitEnc.ntp
    /\ scl_fixed_prec_rows = InitEnc.rows
    /\ conflict_vars = <<>>
    /\ touched_intervals = [v \in VisitIds(problem) |-> v]
    /\ examined = [v \in VisitIds(problem) |-> VisitRec(v).earliest]
    /\ best_sol = None
    /\ best_src = "none"
    /\ lower_bound = 0
    /\ upper_bound = None
    /\ budget_units = <<>>
    /\ budget_tot = None
    /\ last_added_bound = None
    /\ bound_clauses = {}
    /\ bound_assumption = None
    /\ bound_used = None
    /\ is_sat = TRUE
    /\ model = None
    /\ sol_out = <<>>
    /\ n_proposals = 0
    /\ result = "none"
    /\ ret = None
    /\ stats = None

-----------------------------------------------------------------------------
(* Actions *)

\* The heuristic worker sends its next schedule (feasible, correctly costed)
\* on sol_out.  The driver reads sol_out only in its drain, so an arrival at
\* any other point is the same as one just before the next drain.
Propose ==
    /\ pc = "top"
    /\ is_sat
    /\ n_proposals < MaxProposals
    /\ n_proposals < Len(problem.heur)
    /\ LET sol == problem.heur[n_proposals + 1]
       IN sol_out' = Append(sol_out, [cost |-> cost(sol), sol |-> sol])
    /\ n_proposals' = n_proposals + 1
    /\ UNCHANGED <<cfg, examined, pc, occupations, nvars, clauses, touched_intervals,
                   new_time_points, scl_fixed_prec_rows, conflict_vars,
                   best_sol, best_src, lower_bound, upper_bound, budget_units,
                   budget_tot, last_added_bound, bound_clauses, bound_assumption,
                   bound_used, is_sat, model, result, ret, stats>>

\* Variant of TimeoutUb that reports the exclusive bound kept by the search.
TimeoutUbExclusive(best) == IF best = None THEN I32Max ELSE Get(best).cost - 1

\* The ub reported on timeout (sat.rs 346).
TimeoutUb(best) == IF best = None THEN I32Max ELSE Get(best).cost

\* The timeout check at the top of the loop fires (sat.rs 345-362).
Timeout ==
    /\ pc = "top"
    /\ pc' = "done"
    /\ result' = "Timeout"
    /\ stats' = Stats(lower_bound, TimeoutUb(best_sol))
    /\ UNCHANGED <<cfg, examined, occupations, nvars, clauses, touched_intervals,
                   new_time_points, scl_fixed_prec_rows, conflict_vars,
                   best_sol, best_src, lower_bound, upper_bound, budget_units,
                   budget_tot, last_added_bound, bound_clauses, bound_assumption,
                   bound_used, is_sat, model, sol_out, n_proposals, ret>>

\* History of the conflict pass: the incumbent time each visit on the
\* worklist had when the pass read it (sat.rs 401, 471).
Examined(ex, occ, touched) ==
    [v \in DOMAIN ex |->
        IF \E k \in 1..Len(touched) : touched[k] = v
        THEN incumbent_time(occ[v]) ELSE ex[v]]

\* The last solve was SAT: heuristic drain, conflict pass and the solution
\* branch (sat.rs 364-671).  A pass that asks for a point later than MaxT is
\* not modelled: the run is cut there (pc = "horizon").
Refine ==
    /\ pc = "top"
    /\ is_sat
    /\ \E D \in {Drain([S |-> Enc, best |-> best_sol, src |-> best_src,
                         ub |-> upper_bound], sol_out)} :
       \E RP \in {ResourcePass([S |-> TravelPass(D.S, touched_intervals, 1),
                                kept |-> <<>>], touched_intervals, 1)} :
       LET S2 == RP.S
           found == S2.ftravel \/ S2.fres
           issol == ~found /\ ~S2.panic
           sol == extract_solution(S2.occ)
           c == cost(sol)
           better == D.best = None \/ c < Get(D.best).cost
           best1 == IF issol THEN UpdateBest(D.best, c, sol) ELSE D.best
           ub1 == IF issol /\ cfg.search = "UbSearch" THEN TightenUb(D.ub, c)
                  ELSE D.ub
           optimal == issol /\ cfg.search = "UbSearch" /\ Get(ub1) < lower_bound
           blocking == InvalidClause(S2.occ, 1)
           cl1 == IF issol /\ cfg.search = "Invalid" /\ blocking # {}
                  THEN S2.cl \cup {blocking} ELSE S2.cl
       IN IF S2.over
          THEN /\ pc' = "horizon"
               /\ UNCHANGED <<occupations, nvars, clauses, new_time_points, examined,
                              scl_fixed_prec_rows, conflict_vars, touched_intervals,
                              sol_out, best_sol, best_src, upper_bound,
                              bound_assumption, bound_used, result, ret, stats>>
          ELSE
          /\ occupations' = S2.occ
          /\ nvars' = S2.nv
          /\ clauses' = cl1
          /\ new_time_points' = S2.ntp
          /\ scl_fixed_prec_rows' = S2.rows
          /\ conflict_vars' = S2.cv
          /\ touched_intervals' = RP.kept
          /\ examined' = Examined(examined, D.S.occ, touched_intervals)
          /\ sol_out' = <<>>
          /\ best_sol' = best1
          /\ best_src' = IF issol /\ better THEN "driver" ELSE D.src
          /\ upper_bound' = ub1
          /\ bound_assumption' = None
          /\ bound_used' = None
          /\ IF S2.panic
             THEN pc' = "done" /\ result' = "Panic" /\ ret' = None /\ stats' = None
             ELSE IF optimal
             THEN /\ pc' = "done"
                  /\ result' = "Ok"
                  /\ ret' = best1
                  /\ stats' = Stats(Get(best1).cost, Get(best1).cost)
             ELSE pc' = "encode" /\ UNCHANGED <<result, ret, stats>>
    /\ UNCHANGED <<cfg, lower_bound, budget_units, budget_tot, last_added_bound,
                   bound_clauses, is_sat, model, n_proposals>>

\* The last solve was UNSAT: the block guarded by is_sat is skipped.
SkipRefine ==
    /\ pc = "top"
    /\ ~is_sat
    /\ pc' = "encode"
    /\ bound_assumption' = None
    /\ bound_used' = None
    /\ UNCHANGED <<cfg, examined, occupations, nvars, clauses, touched_intervals,
                   new_time_points, scl_fixed_prec_rows, conflict_vars,
                   best_sol, best_src, lower_bound, upper_bound, budget_units,
                   budget_tot, last_added_bound, bound_clauses,
                   is_sat, model, sol_out, n_proposals, result, ret, stats>>

\* Cost encoding and budget enforcement (sat.rs 673-779).
Encode ==
    /\ pc = "encode"
    /\ LET E == EncodeCosts([occ |-> occupations, nv |-> nvars, cl |-> clauses,
                             units |-> budget_units], new_time_points)
           bounded == cfg.search = "UbSearch" /\ upper_bound # None
           ub == Get(upper_bound)
           exhausted == bounded /\ ub < lower_bound
           target_ub == TargetUb(lower_bound, ub)
           ub_usize == target_ub
           enforce == bounded /\ ~exhausted /\ ub_usize < Len(E.units)
           tot == IF NeedRebuild(budget_tot, Len(E.units), ub_usize)
                  THEN Some([len |-> Len(E.units), max_bound |-> ub_usize])
                  ELSE budget_tot
           bound_lit == <<Get(tot).len, ub_usize>>
       IN /\ occupations' = E.occ
          /\ nvars' = E.nv
          /\ clauses' = E.cl
          /\ budget_units' = E.units
          /\ new_time_points' = <<>>
          /\ budget_tot' = IF enforce THEN tot ELSE budget_tot
          /\ bound_used' = IF enforce THEN Some(target_ub) ELSE bound_used
          /\ bound_assumption' = IF enforce /\ cfg.mode = "Assumptions"
                                 THEN Some(bound_lit) ELSE bound_assumption
          /\ bound_clauses' = IF enforce /\ cfg.mode = "AddClauses"
                                 /\ AddsBoundClause(last_added_bound, ub_usize)
                              THEN bound_clauses \cup {bound_lit} ELSE bound_clauses
          /\ last_added_bound' = IF enforce /\ cfg.mode = "AddClauses"
                                 THEN Some(ub_usize) ELSE last_added_bound
          /\ IF exhausted
             THEN /\ pc' = "done"
                  /\ IF best_sol # None
                     THEN /\ result' = "Ok"
                          /\ ret' = best_sol
                          /\ stats' = Stats(Get(best_sol).cost, Get(best_sol).cost)
                     ELSE /\ result' = "NoSolution"
                          /\ UNCHANGED <<ret, stats>>
             ELSE pc' = "solve" /\ UNCHANGED <<result, ret, stats>>
    /\ UNCHANGED <<cfg, examined, touched_intervals, scl_fixed_prec_rows, conflict_vars,
                   best_sol, best_src, lower_bound, upper_bound, is_sat, model,
                   sol_out, n_proposals>>

\* solve_with_assumptions answers SAT with some model (sat.rs 791-819).
SolveSat ==
    /\ pc = "solve"
    /\ \E a \in {m \cap LadderVars(occupations) : m \in Models} :
          LET new_idx == [v \in VisitIds(problem) |-> Walk(a, occupations[v])]
          IN /\ occupations' = [v \in VisitIds(problem) |->
                                   [occupations[v] EXCEPT !.incumbent_idx = new_idx[v]]]
             /\ touched_intervals' = Touch(touched_intervals, occupations, new_idx, 1)
             /\ model' = Some([tv |-> a, nv |-> nvars])
    /\ is_sat' = TRUE
    /\ pc' = "top"
    /\ UNCHANGED <<cfg, examined, nvars, clauses, new_time_points, scl_fixed_prec_rows,
                   conflict_vars, best_sol, best_src, lower_bound, upper_bound,
                   budget_units, budget_tot, last_added_bound, bound_clauses,
                   bound_assumption, bound_used, sol_out, n_proposals,
                   result, ret, stats>>

\* Variant of UnsatResult without the `continue` of the bounded case.
UnsatResultNoContinue(search, best, used, ub, lb1) ==
    IF search = "Invalid"
    THEN (IF best # None THEN "Ok" ELSE "NoSolution")
    ELSE IF used # None /\ best # None /\ ub # None /\ Get(ub) < lb1
    THEN "Ok"
    ELSE "NoSolution"

\* Variant of UnsatResult whose Invalid branch does not look at best_sol.
UnsatResultDropsBest(search, best, used, ub, lb1) ==
    IF search = "Invalid"
    THEN "NoSolution"
    ELSE IF used # None
    THEN (IF best # None /\ ub # None /\ Get(ub) < lb1 THEN "Ok" ELSE "continue")
    ELSE "NoSolution"

\* The result of an UNSAT answer (sat.rs 820-867): "Ok", "NoSolution" or
\* "continue".
UnsatResult(search, best, used, ub, lb1) ==
    IF search = "Invalid"
    THEN (IF best # None THEN "Ok" ELSE "NoSolution")
    ELSE IF used # None
    THEN (IF best # None /\ ub # None /\ Get(ub) < lb1 THEN "Ok" ELSE "continue")
    ELSE "NoSolution"

\* solve_with_assumptions answers UNSAT (sat.rs 820-867).
SolveUnsat ==
    /\ pc = "solve"
    /\ Models = {}
    /\ is_sat' = FALSE
    /\ LET lb1 == IF cfg.search = "UbSearch" /\ bound_used # None
                  THEN Get(bound_used) + 1 ELSE lower_bound
           r == UnsatResult(cfg.search, best_sol, bound_used, upper_bound, lb1)
       IN /\ lower_bound' = lb1
          /\ IF r = "continue"
             THEN pc' = "top" /\ UNCHANGED <<result, ret, stats>>
             ELSE /\ pc' = "done"
                  /\ result' = r
                  /\ IF r = "Ok"
                     THEN /\ ret' = best_sol
                          /\ stats' = Stats(Get(best_sol).cost, Get(best_sol).cost)
                     ELSE UNCHANGED <<ret, stats>>
    /\ UNCHANGED <<cfg, examined, occupations, nvars, clauses, touched_intervals,
                   new_time_points, scl_fixed_prec_rows, conflict_vars,
                   best_sol, best_src, upper_bound, budget_units, budget_tot,
                   last_added_bound, bound_clauses, bound_assumption, bound_used,
                   model, sol_out, n_proposals>>

Next ==
    \/ Propose
    \/ Timeout
    \/ Refine
    \/ SkipRefine
    \/ Encode
    \/ SolveSat
    \/ SolveUnsat

Spec == Init /\ [][Next]_vars

\* A step of the driver thread other than the timeout return: among the
\* steps of Next exactly those of Refine, SkipRefine, Encode, SolveSat and
\* SolveUnsat, each of which moves pc.  One of them is possible whenever pc
\* is at a location of the loop.
DriverStep ==
    /\ pc \in {"top", "encode", "solve"}
    /\ pc' \in {"top", "encode", "solve", "done", "horizon"}
    /\ pc' # pc
    /\ result' \in {"none", "Ok", "NoSolution", "Panic"}

\* The driver thread keeps running: the loop has no suspension point.
FairSpec == Init /\ [][Next]_vars /\ WF_<<pc, result>>(DriverStep)

-----------------------------------------------------------------------------
(* The constraints of the original problem *)

\* Arrival of visit v in a schedule, and the time it is left.
TimeIn(sol, v) == sol[TrainOf(v)][VisitIdxOf(v)]
TimeOut(sol, v) == sol[TrainOf(v)][VisitIdxOf(v) + 1]

Conflicting(r1, r2) ==
    \E i \in 1..Len(problem.conflicts) :
        problem.conflicts[i] = <<r1, r2>> \/ problem.conflicts[i] = <<r2, r1>>

EarliestOk(sol) ==
    \A v \in VisitIds(problem) : TimeIn(sol, v) >= VisitRec(v).earliest

\* t[i+1] >= t[i] + travel_i for consecutive visits of a train.
TravelOk(sol) ==
    \A v \in VisitIds(problem) :
        NextVisit(v) # None =>
            TimeOut(sol, v) - VisitRec(v).travel_time >= TimeIn(sol, v)

\* Visits of different trains on conflicting resources occupy disjoint intervals.
ResourceOk(sol) ==
    \A v, w \in VisitIds(problem) :
        (TrainOf(v) # TrainOf(w)
            /\ Conflicting(VisitRec(v).resource_id, VisitRec(w).resource_id))
        => (TimeOut(sol, v) <= TimeIn(sol, w) \/ TimeOut(sol, w) <= TimeIn(sol, v))

Feasible(sol) == EarliestOk(sol) /\ TravelOk(sol) /\ ResourceOk(sol)

\* The schedule with arrival f[v] at visit v, each train leaving its last
\* visit after that visit's travel time.
ScheduleOf(f) ==
    [tr \in 1..NTrains(problem) |->
        LET n == NVisitsOf(problem, tr)
        IN Append([vi \in 1..n |-> f[TrainVisitId(problem, tr, vi)]],
                  f[TrainVisitId(problem, tr, n)] + problem.trains[tr][n].travel_time)]

\* Some feasible schedule with arrivals in 0..MaxT costs less than c.
CheaperFeasible(c) ==
    \E f \in [VisitIds(problem) -> 0..MaxT] :
        Feasible(ScheduleOf(f)) /\ cost(ScheduleOf(f)) < c

-----------------------------------------------------------------------------
(* Claims *)

\* C1: whenever best_sol holds an incumbent the driver stored itself, that
\* schedule satisfies every travel-time and every resource constraint of the
\* problem, and the stored cost is the schedule's cost.
C1_DriverIncumbentFeasible ==
    best_src = "driver" =>
        /\ TravelOk(Get(best_sol).sol)
        /\ ResourceOk(Get(best_sol).sol)
        /\ Get(best_sol).cost = cost(Get(best_sol).sol)

\* C2: in UbSearch mode a schedule returned by Ok is optimal: no feasible
\* schedule of the problem costs strictly less.
C2_OkIsOptimal ==
    (cfg.search = "UbSearch" /\ result = "Ok") =>
        ~CheaperFeasible(cost(Get(ret).sol))

\* C3: in UbSearch mode, at every SAT call made with a target bound B smaller
\* than the number of budget units, every model the solver may return has at
\* most B of the current budget units true.
C3_BoundOnCurrentUnits ==
    (cfg.search = "UbSearch" /\ pc = "solve" /\ bound_used # None) =>
        \A a \in Models :
            AtMost(a, budget_units, <<Len(budget_units), Get(bound_used)>>)

\* C4: in UbSearch mode no step increases upper_bound once it is set, and no
\* step decreases lower_bound.
C4_BoundsMonotone ==
    [][cfg.search = "UbSearch" =>
          /\ lower_bound' >= lower_bound
          /\ upper_bound # None =>
                (upper_bound' # None /\ Get(upper_bound') <= Get(upper_bound))]_vars

\* A run of the binary search that has raised lower_bound under a set
\* upper_bound and goes on.
C4_Witness ==
    /\ cfg.search = "UbSearch"
    /\ upper_bound # None
    /\ lower_bound > 0
    /\ Get(upper_bound) >= lower_bound
    /\ pc = "top"

\* The ladder of visit v: strictly increasing times, (TRUE, earliest) first,
\* (FALSE, +infinity) last, and the clause n -> p in the solver for every
\* adjacent pair of non-constant literals.
LadderOk(v) ==
    LET d == occupations[v].delays
    IN /\ Len(d) >= 2
       /\ \A i \in 1..(Len(d) - 1) : d[i][2] < d[i + 1][2]
       /\ d[1] = <<T, VisitRec(v).earliest>>
       /\ d[Len(d)] = <<F, I32Max>>
       /\ \A i \in 1..(Len(d) - 1) :
             (d[i][1] \notin {T, F} /\ d[i + 1][1] \notin {T, F})
             => {Not(d[i + 1][1]), d[i][1]} \in clauses

\* C5: every occupation's ladder is strictly increasing in t, starts with
\* (TRUE, earliest), ends with (FALSE, +infinity), and has its chain clauses.
C5_LadderInvariant == \A v \in VisitIds(problem) : LadderOk(v)

\* A ladder with three inserted points.
C5_Witness ==
    \E v \in VisitIds(problem) : Len(occupations[v].delays) >= 5 /\ LadderOk(v)

\* C6: time_point with a t already in the ladder returns that pair's literal
\* and is_new = false, and changes neither the ladder, the variables nor the
\* clauses.
C6_TimePointIdempotent ==
    \A v \in VisitIds(problem) :
        \A i \in 1..Len(occupations[v].delays) :
            LET r == time_point(Enc, v, occupations[v].delays[i][2])
            IN /\ r.lit = occupations[v].delays[i][1]
               /\ r.is_new = FALSE
               /\ r.S.occ = occupations
               /\ r.S.nv = nvars
               /\ r.S.cl = clauses
               /\ ~r.S.panic

\* A ladder holding inserted points on which the repeated call is made.
C6_Witness ==
    \E v \in VisitIds(problem) :
        /\ Len(occupations[v].delays) >= 4
        /\ time_point(Enc, v, occupations[v].delays[2][2]).lit
               = occupations[v].delays[2][1]

\* The literal l has a value in the most recent model.
Valued(l) == l \in {T, F} \/ (IF l > 0 THEN l ELSE -l) <= Get(model).nv

\* C7: after the first SAT result, each incumbent_idx designates a pair whose
\* literal is true in the most recent model and whose successor's literal is
\* false in it (a literal created after that model has no value in it).
C7_IncumbentIsModelBoundary ==
    model # None =>
        \A v \in VisitIds(problem) :
            LET o == occupations[v]
                at == o.delays[o.incumbent_idx][1]
                nx == o.delays[o.incumbent_idx + 1][1]
            IN /\ Valued(at) => Val(Get(model).tv, at)
               /\ Valued(nx) => ~Val(Get(model).tv, nx)

\* C8: NoSolution is never returned while best_sol holds a schedule.
C8_NoSolutionWithoutBest == result = "NoSolution" => best_sol = None

\* solve has returned NoSolution.
C8_Witness == result = "NoSolution" /\ pc = "done"

\* C9: the step that returns Timeout is taken at the top of an iteration,
\* reports lb = lower_bound and ub = the cost of best_sol (i32::MAX when
\* unset), and changes nothing of the encoding, the bounds or the solver.
C9_TimeoutAtTop ==
    [][(result' = "Timeout" /\ result # "Timeout") =>
          /\ pc = "top"
          /\ stats' = Some([lb |-> lower_bound,
                            ub |-> IF best_sol = None THEN I32Max
                                   ELSE Get(best_sol).cost])
          /\ UNCHANGED <<occupations, nvars, clauses, touched_intervals,
                         new_time_points, scl_fixed_prec_rows, conflict_vars,
                         best_sol, lower_bound, upper_bound, budget_units,
                         budget_tot, last_added_bound, bound_clauses,
                         bound_assumption, is_sat, model, sol_out>>]_vars

\* A timeout reported while best_sol is set and lower_bound has been raised.
C9_Witness ==
    /\ result = "Timeout"
    /\ best_sol # None
    /\ lower_bound > 0
    /\ stats = Some([lb |-> lower_bound, ub |-> Get(best_sol).cost])

InvalidNeverUnsat ==
    (cfg.problem = "Scenario3" /\ cfg.search = "Invalid" /\ n_proposals = 0)
        => /\ result \notin {"Ok", "NoSolution"}
           /\ pc = "solve" => (2..nvars) \in Models

\* C11: in Invalid mode upper_bound is never set and no budget clause or
\* assumption is ever issued; an UNSAT answer ends the run at once, with
\* Ok(best_sol) when a solution has been recorded and NoSolution otherwise.
C11_InvalidUnsatEnds ==
    cfg.search = "Invalid" =>
        /\ upper_bound = None
        /\ bound_clauses = {}
        /\ bound_assumption = None
        /\ bound_used = None
        /\ last_added_bound = None
        /\ budget_tot = None
        /\ ~is_sat =>
              /\ pc = "done"
              /\ IF best_sol # None
                 THEN result = "Ok" /\ ret = best_sol
                 ELSE result = "NoSolution" /\ ret = None

\* An Invalid run that recorded a solution and then got UNSAT.
C11_Witness ==
    cfg.search = "Invalid" /\ ~is_sat /\ result = "Ok" /\ best_sol # None

\* The time a model a gives visit v: the pair the incumbent walk stops at.
ModelTime(a, v) == occupations[v].delays[Walk(a, occupations[v])][2]

\* Scenario 3 at its first SAT call with no proposal drained: the one
\* resource-conflict iteration on the earliest incumbents has put time-point
\* 5 into both ladders and added the two choice-variable clauses.
AfterFirstConflict ==
    /\ cfg.problem = "Scenario3"
    /\ n_proposals = 0
    /\ pc = "solve"
    /\ model = None
    /\ DOMAIN conflict_vars # {}
    /\ \A v \in {1, 2} : Len(occupations[v].delays) = 3
                          /\ occupations[v].delays[2][2] = 5

\* C12 as stated: every model of that call has exactly one train at 0 and
\* the other at 5.
C12_ExactlyOneAtZero ==
    AfterFirstConflict =>
        \A a \in Models : {ModelTime(a, 1), ModelTime(a, 2)} = {0, 5}

\* C12 amended: every model of that call has each train at 0 or 5 and never
\* both at 0; (0, 5), (5, 0) and (5, 5) are all models.
C12_NotBothAtZero ==
    AfterFirstConflict =>
        /\ \A a \in Models :
              /\ ModelTime(a, 1) \in {0, 5}
              /\ ModelTime(a, 2) \in {0, 5}
              /\ ~(ModelTime(a, 1) = 0 /\ ModelTime(a, 2) = 0)
        /\ \A p \in {<<0, 5>>, <<5, 0>>, <<5, 5>>} :
              \E a \in Models : ModelTime(a, 1) = p[1] /\ ModelTime(a, 2) = p[2]

C12_Witness == AfterFirstConflict /\ Models # {}

\* One train, no resource conflicts, zero delay costs.
OneTrainZeroCost ==
    NTrains(problem) = 1 /\ problem.conflicts = <<>> /\ problem.ctype = "zero"

\* [earliest_0, earliest_1, ..., earliest_last + travel_last].
EarliestSchedule == ScheduleOf([v \in VisitIds(problem) |-> VisitRec(v).earliest])

\* The earliest travel-feasible arrival at visit v of the single train:
\* max(earliest_v, arrival at v - 1 plus its travel time).
RECURSIVE PushedTime(_)
PushedTime(v) ==
    IF v = 1 THEN VisitRec(1).earliest
    ELSE LET p == PushedTime(v - 1) + VisitRec(v - 1).travel_time
         IN IF p > VisitRec(v).earliest THEN p ELSE VisitRec(v).earliest

PushedSchedule == ScheduleOf([v \in VisitIds(problem) |-> PushedTime(v)])

\* C13 as stated: on a one-train, conflict-free, zero-cost instance UbSearch
\* returns the schedule of the earliest times, before any SAT call, with
\* upper_bound = -1.
C13_FirstIterationEarliest ==
    (OneTrainZeroCost /\ cfg.search = "UbSearch" /\ result = "Ok") =>
        /\ Get(ret).sol = EarliestSchedule
        /\ model = None
        /\ upper_bound = Some(-1)

\* C13 amended: the returned schedule is feasible, has cost 0 and leaves
\* upper_bound = -1.  When it is the driver's own incumbent it is the
\* schedule of the earliest travel-feasible times, returned before any SAT
\* call only if the earliest times are themselves travel-feasible; otherwise
\* it is one of the heuristic's proposals.
C13_ReturnsZeroCostFeasible ==
    (OneTrainZeroCost /\ cfg.search = "UbSearch" /\ result = "Ok") =>
        /\ Feasible(Get(ret).sol)
        /\ Get(ret).cost = 0
        /\ upper_bound = Some(-1)
        /\ best_src = "driver" =>
              /\ Get(ret).sol = PushedSchedule
              /\ (model = None) <=> (PushedSchedule = EarliestSchedule)
        /\ best_src = "heuristic" =>
              \E i \in 1..n_proposals : Get(ret).sol = problem.heur[i]

\* The driver's own schedule returned on such an instance.
C13_Witness ==
    /\ OneTrainZeroCost
    /\ cfg.search = "UbSearch"
    /\ result = "Ok"
    /\ best_src = "driver"
    /\ Get(ret).sol = PushedSchedule

\* A step of the conflict pass that ran to its end.
PassStep ==
    /\ pc = "top" /\ is_sat
    /\ pc' \in {"encode", "done"}
    /\ result' \notin {"Timeout", "Panic"}

\* A step in which the solver returned a model.
SatStep == pc = "solve" /\ pc' = "top" /\ is_sat'

\* The occupations the travel pass reads: those left by the drain.
DrainedOcc ==
    Drain([S |-> Enc, best |-> best_sol, src |-> best_src, ub |-> upper_bound],
          sol_out).S.occ

\* The successor of v holds the point t and the clause in_var -> (point t).
HasPrecedence(occ, cl, v, in_var, t) ==
    \E j \in 1..Len(occ[v + 1].delays) :
        /\ occ[v + 1].delays[j][2] = t
        /\ {Not(in_var), occ[v + 1].delays[j][1]} \in cl

\* C14: in the Plain encoding, (a) a pass that finds t_in + travel > t_out on
\* a touched visit leaves t_in + travel in the successor's ladder and the
\* clause in_var -> out_var in the solver; (b) every model returned later
\* that has the visit at a time >= t_in of such a clause has the successor at
\* a time >= t_in + travel; (c) on Scenario 2 the first model is (0, 10).
C14_PlainPrecedence ==
    [][cfg.prec = "Plain" =>
        /\ PassStep =>
              \A k \in 1..Len(touched_intervals) :
                 LET v == touched_intervals[k]
                     o == DrainedOcc[v]
                     t_in == incumbent_time(o)
                     new_t == Add32(t_in, VisitRec(v).travel_time)
                 IN (NextVisit(v) # None
                       /\ new_t > incumbent_time(DrainedOcc[v + 1]))
                    => HasPrecedence(occupations', clauses', v,
                                     o.delays[o.incumbent_idx][1], new_t)
        /\ SatStep =>
              \A v \in VisitIds(problem) : \A i \in 1..Len(occupations[v].delays) :
                 (NextVisit(v) # None
                    /\ HasPrecedence(occupations, clauses, v,
                                     occupations[v].delays[i][1],
                                     Add32(occupations[v].delays[i][2],
                                           VisitRec(v).travel_time))
                    /\ incumbent_time(occupations'[v]) >= occupations[v].delays[i][2])
                 => incumbent_time(occupations'[v + 1])
                        >= Add32(occupations[v].delays[i][2], VisitRec(v).travel_time)
        /\ (SatStep /\ cfg.problem = "Scenario2" /\ model = None) =>
              /\ incumbent_time(occupations'[1]) = 0
              /\ incumbent_time(occupations'[2]) = 10]_vars

\* Scenario 2 in the Plain encoding after its first model: visit 1 holds the
\* point 10 with its precedence clause, and the incumbent is (0, 10).
C14_Witness ==
    /\ cfg.problem = "Scenario2" /\ cfg.prec = "Plain"
    /\ model # None /\ pc = "top"
    /\ HasPrecedence(occupations, clauses, 1, T, 10)
    /\ incumbent_time(occupations[1]) = 0
    /\ incumbent_time(occupations[2]) = 10

-----------------------------------------------------------------------------
(* C15 *)

OnList(v) == \E k \in 1..Len(touched_intervals) : touched_intervals[k] = v

\* C15: after every SAT result, every visit whose incumbent time differs
\* from the time it had when the conflict pass last read it is on
\* touched_intervals for the next pass, together with its same-train
\* predecessor when it has one.
C15_MovedVisitsTouched ==
    (pc = "top" /\ is_sat) =>
        \A v \in VisitIds(problem) :
            incumbent_time(occupations[v]) # examined[v] =>
                /\ OnList(v)
                /\ VisitIdxOf(v) > 1 => OnList(v - 1)

-----------------------------------------------------------------------------
(* C16 *)

\* C16: between two consecutive SAT calls no time-point insertion changes the
\* incumbent time of any occupation, so the schedule the conflict pass
\* examines and reports is the one read from the last SAT model.
C16_InsertionsKeepIncumbentTime ==
    [][pc # "solve" =>
          \A v \in VisitIds(problem) :
              incumbent_time(occupations'[v]) = incumbent_time(occupations[v])]_vars

-----------------------------------------------------------------------------
(* C17 *)

\* The literals of the ladders occ as the schedule with arrivals f sets
\* them: the literal of the pair (lit, t) of visit v is true iff f[v] >= t.
RECURSIVE LadderUnits(_, _, _)
LadderUnits(occ, f, v) ==
    IF v > NVisits(problem) THEN {}
    ELSE {{IF f[v] >= occ[v].delays[k][2]
           THEN occ[v].delays[k][1]
           ELSE Not(occ[v].delays[k][1])} : k \in 1..Len(occ[v].delays)}
         \cup LadderUnits(occ, f, v + 1)

\* Some value of the remaining variables (choice variables, cost units)
\* satisfies every clause together with the schedule f.
Admits(f) ==
    Assignments(Assign(clauses \cup LadderUnits(occupations, f, 1), T), 2, nvars, {}) # {}

\* C17: in the optimising mode every clause of the encoding is satisfied by
\* every schedule that is feasible for the original problem, with some value
\* of the choice variables, and lower_bound never exceeds the optimal cost.
C17_RefinementIsRelaxation ==
    cfg.search = "UbSearch" =>
        /\ pc = "encode" =>
               \A f \in [VisitIds(problem) -> 0..MaxT] :
                   Feasible(ScheduleOf(f)) => Admits(f)
        /\ ~CheaperFeasible(lower_bound)

-----------------------------------------------------------------------------
(* C18 *)

\* The conflict pass the driver runs from the current state.
PassOutcome ==
    ResourcePass([S |-> TravelPass(Drain([S |-> Enc, best |-> best_sol,
                                          src |-> best_src, ub |-> upper_bound],
                                         sol_out).S,
                                   touched_intervals, 1),
                  kept |-> <<>>], touched_intervals, 1)

TrainPair(o) == {TrainOf(o.visit_id), TrainOf(o.other_visit)}

\* C18: within one resource pass the first overlap met for a pair of trains,
\* in either order, is processed and records both orderings in
\* deconflicted_train_pairs; every later overlap of that pair is skipped and
\* the visit being scanned is on touched_intervals after the pass.
C18_OneConflictPerTrainPair ==
    [][PassStep =>
          LET P == PassOutcome
              L == P.S.seen
          IN \A k \in 1..Len(L) :
                /\ L[k].processed <=>
                       ~\E j \in 1..(k - 1) : TrainPair(L[j]) = TrainPair(L[k])
                /\ L[k].processed =>
                       /\ <<TrainOf(L[k].visit_id), TrainOf(L[k].other_visit)>> \in P.S.dtp
                       /\ <<TrainOf(L[k].other_visit), TrainOf(L[k].visit_id)>> \in P.S.dtp
                /\ ~L[k].processed =>
                       \E i \in 1..Len(touched_intervals') :
                           touched_intervals'[i] = L[k].visit_id]_vars

\* A pass has skipped a later overlap of a processed pair and kept the
\* scanned visit.
C18_Witness ==
    /\ pc = "encode"
    /\ touched_intervals # <<>>
    /\ DOMAIN conflict_vars # {}

-----------------------------------------------------------------------------
(* C19 *)

TwoTrainsOneResource == cfg.problem \in {"Scenario3", "LateProposal"}

HasPoint(o, t) == \E k \in 1..Len(o.delays) : o.delays[k][2] = t

\* The time visit v is left in the incumbent schedule (t1_out, t2_out).
LeaveTime(occ, v) ==
    IF NextVisit(v) # None THEN incumbent_time(occ[Get(NextVisit(v))])
    ELSE Add32(incumbent_time(occ[v]), VisitRec(v).travel_time)

\* The ladder of visit v gains exactly the point t in the conflict pass.
GainsPoint(v, t) ==
    /\ ~HasPoint(DrainedOcc[v], t)
    /\ HasPoint(occupations'[v], t)
    /\ Len(occupations'[v].delays) = Len(DrainedOcc[v].delays) + 1

\* The ladder of visit v holds the point t after the conflict pass, and has
\* grown by that point only, if at all.
HoldsPoint(v, t) ==
    /\ HasPoint(occupations'[v], t)
    /\ Len(occupations'[v].delays) =
           Len(DrainedOcc[v].delays) + (IF HasPoint(DrainedOcc[v], t) THEN 0 ELSE 1)

\* C19 (as stated): with two trains on one resource, every iteration that
\* detects the resource conflict inserts exactly one new time-point into each
\* of the two ladders, the other train's leave time.
C19_OneNewPointEach ==
    [][(TwoTrainsOneResource /\ PassStep) =>
          \A k \in 1..Len(PassOutcome.S.seen) :
              LET o == PassOutcome.S.seen[k]
              IN o.processed =>
                    /\ GainsPoint(o.visit_id, LeaveTime(DrainedOcc, o.other_visit))
                    /\ GainsPoint(o.other_visit, LeaveTime(DrainedOcc, o.visit_id))]_vars

\* C19 (amended): with two trains on one resource, after every iteration that
\* detects the resource conflict each of the two ladders holds the other
\* train's leave time; the pass inserts it unless the ladder already held it,
\* and inserts nothing else.  Without heuristic proposals both points are new.
C19_LeaveTimesPresent ==
    [][(TwoTrainsOneResource /\ PassStep) =>
          \A k \in 1..Len(PassOutcome.S.seen) :
              LET o == PassOutcome.S.seen[k]
              IN o.processed =>
                    /\ HoldsPoint(o.visit_id, LeaveTime(DrainedOcc, o.other_visit))
                    /\ HoldsPoint(o.other_visit, LeaveTime(DrainedOcc, o.visit_id))
                    /\ n_proposals = 0 =>
                          /\ GainsPoint(o.visit_id, LeaveTime(DrainedOcc, o.other_visit))
                          /\ GainsPoint(o.other_visit, LeaveTime(DrainedOcc, o.visit_id))]_vars

\* A conflict has been refined after a proposal was injected: both ladders
\* hold the point 5, the leave time of the other train at 0.
C19_Witness ==
    /\ TwoTrainsOneResource
    /\ pc = "encode"
    /\ n_proposals > 0
    /\ DOMAIN conflict_vars # {}
    /\ \A v \in VisitIds(problem) : HasPoint(occupations[v], 5)

-----------------------------------------------------------------------------
(* C20 *)

\* The schedule read from the last SAT model (sat.rs 799-806).
ModelSchedule == [v \in VisitIds(problem) |-> incumbent_time(occupations[v])]

\* C20: every iteration whose conflict pass processes a conflict adds a
\* clause that the model the incumbents were read from falsifies: whatever
\* the values of the choice variables, the schedule of that model does not
\* satisfy the clauses after the pass, so it is not returned again.
C20_ConflictCutsModel ==
    [][(PassStep /\ model # None /\ (PassOutcome.S.ftravel \/ PassOutcome.S.fres)) =>
          Assignments(Assign(clauses' \cup LadderUnits(occupations', ModelSchedule, 1), T),
                      2, nvars', {}) = {}]_vars

-----------------------------------------------------------------------------
(* C21 *)

\* C21: in UbSearch mode every run in which the timeout does not fire and
\* the ladders stay within the time horizon returns Ok or NoSolution.
C21_UbSearchTerminates ==
    cfg.search = "UbSearch"
        => <>(result \in {"Ok", "NoSolution", "Timeout", "Panic"} \/ pc = "horizon")

-----------------------------------------------------------------------------
(* C22 *)

\* The conflict pass from the current state reports a solution.
PassFindsSolution ==
    /\ PassStep
    /\ ~PassOutcome.S.ftravel
    /\ ~PassOutcome.S.fres
    /\ ~PassOutcome.S.panic

UnsatStep == pc = "solve" /\ pc' # "solve" /\ ~is_sat'

\* C22: in Assumptions + UbSearch mode a probe has the target
\* (lower_bound + upper_bound) div 2, which lies between the two bounds; a
\* solution found after a SAT answer at probe B costs at most B and brings
\* upper_bound to at most B - 1; an UNSAT answer at probe B sets
\* lower_bound = B + 1; the bound literal is an assumption only, never a
\* clause.  With bounds 0 and 10 the probes are 5, then 2, then 3.
C22_BisectionProbe ==
    [][(cfg.mode = "Assumptions" /\ cfg.search = "UbSearch") =>
          /\ bound_clauses' = {}
          /\ last_added_bound' = None
          /\ (pc = "encode" /\ bound_used' # None) =>
                /\ Get(bound_used') = (lower_bound + Get(upper_bound)) \div 2
                /\ lower_bound <= Get(bound_used')
                /\ Get(bound_used') <= Get(upper_bound)
                /\ bound_assumption' # None
          /\ (PassFindsSolution /\ bound_used # None) =>
                /\ cost(extract_solution(PassOutcome.S.occ)) <= Get(bound_used)
                /\ Get(upper_bound') <= Get(bound_used) - 1
          /\ (UnsatStep /\ bound_used # None) =>
                lower_bound' = Get(bound_used) + 1
          /\ TargetUb(0, 10) = 5
          /\ TargetUb(0, 4) = 2
          /\ TargetUb(3, 4) = 3]_vars

\* An UNSAT answer at a probe, after the driver found a solution, has raised
\* lower_bound past the probe's target.
C22_Witness ==
    /\ cfg.mode = "Assumptions"
    /\ cfg.search = "UbSearch"
    /\ pc = "top"
    /\ ~is_sat
    /\ bound_assumption # None
    /\ bound_used # None
    /\ lower_bound = Get(bound_used) + 1
    /\ best_src = "driver"

-----------------------------------------------------------------------------
(* C23 *)

\* In the assignment a the occupation o sits on its ladder point j.
SitsAt(a, o, j) == Val(a, o.delays[j][1]) /\ ~Val(a, o.delays[j + 1][1])

\* The assignment a respects the chain clauses of the ladders occ.
ChainOk(a, occ) ==
    \A v \in VisitIds(problem) : \A j \in 1..(Len(occ[v].delays) - 1) :
        Val(a, occ[v].delays[j + 1][1]) => Val(a, occ[v].delays[j][1])

Falsifies(a, clause) == \A l \in clause : ~Val(a, l)

\* C23: the blocking clause added in Invalid mode after a solution is
\* non-empty and in the solver; an assignment falsifies it exactly when every
\* occupation sits on its incumbent point; no assignment that respects the
\* chains and has some occupation on another point of its ladder falsifies it.
C23_BlockingClause ==
    [][(cfg.search = "Invalid" /\ PassFindsSolution) =>
          LET occ == PassOutcome.S.occ
              B == InvalidClause(occ, 1)
          IN /\ B # {}
             /\ B \in clauses'
             /\ \A a \in SUBSET LadderVars(occ) :
                   /\ Falsifies(a, B) <=>
                          \A v \in VisitIds(problem) :
                              SitsAt(a, occ[v], occ[v].incumbent_idx)
                   /\ ChainOk(a, occ) =>
                          \A v \in VisitIds(problem) :
                              \A j \in 1..(Len(occ[v].delays) - 1) :
                                  (j # occ[v].incumbent_idx /\ SitsAt(a, occ[v], j))
                                      => ~Falsifies(a, B)]_vars

\* A solution was blocked while another point of some ladder existed.
C23_Witness ==
    /\ cfg.search = "Invalid"
    /\ pc = "encode"
    /\ InvalidClause(occupations, 1) \in clauses
    /\ \E v \in VisitIds(problem) : Len(occupations[v].delays) > 2

-----------------------------------------------------------------------------
(* C24 *)

\* The number of true literals among c[1..] of occupation o in assignment a.
CostUnitsTrue(a, o) == Cardinality({i \in 2..Len(o.cost) : Val(a, o.cost[i])})

\* C24: at every SAT call new_time_points is empty and every ladder point
\* (lit, t) of positive delay cost c has the clause lit -> cost[c] in the
\* solver; in every model the solver may return, each visit has at least as
\* many true cost literals c[1..] as the delay cost of its time in the model.
C24_CostAnchors ==
    pc = "solve" =>
        /\ new_time_points = <<>>
        /\ \A v \in VisitIds(problem) :
              \A k \in 1..(Len(occupations[v].delays) - 1) :
                  LET o == occupations[v]
                      c == visit_delay_cost(v, o.delays[k][2])
                  IN c > 0 =>
                        /\ Len(o.cost) > c
                        /\ {Not(o.delays[k][1]), o.cost[c + 1]} \in clauses
        /\ \A a \in Models : \A v \in VisitIds(problem) :
              CostUnitsTrue(a, occupations[v]) >= visit_delay_cost(v, ModelTime(a, v))

\* A SAT call at which some model puts a visit on a point of delay cost 2.
C24_Witness ==
    /\ pc = "solve"
    /\ \E a \in Models : \E v \in VisitIds(problem) :
          visit_delay_cost(v, ModelTime(a, v)) >= 2

-----------------------------------------------------------------------------
(* C25 *)

\* The sum over the occupations v.. of |cost| - 1.
RECURSIVE SumCostUnits(_, _)
SumCostUnits(occ, v) ==
    IF v > NVisits(problem) THEN 0
    ELSE (Len(occ[v].cost) - 1) + SumCostUnits(occ, v + 1)

\* C25: every cost ladder starts with TRUE and has the clause c[k] -> c[k-1]
\* for every k >= 1; budget_units lists the literals c[1..] of all
\* occupations, each once, in the order they were allocated, so its length is
\* the sum over the occupations of |cost| - 1.
C25_CostLadders ==
    /\ \A v \in VisitIds(problem) :
          /\ Len(occupations[v].cost) >= 1
          /\ occupations[v].cost[1] = T
          /\ \A k \in 2..Len(occupations[v].cost) :
                {Not(occupations[v].cost[k]), occupations[v].cost[k - 1]} \in clauses
    /\ \A i, j \in 1..Len(budget_units) : i < j => budget_units[i] < budget_units[j]
    /\ {budget_units[i] : i \in 1..Len(budget_units)} =
          UNION {{occupations[v].cost[k] : k \in 2..Len(occupations[v].cost)} :
                    v \in VisitIds(problem)}
    /\ Len(budget_units) = SumCostUnits(occupations, 1)

\* Two occupations have cost literals, one of them at least two.
C25_Witness ==
    \E v, w \in VisitIds(problem) :
        /\ v # w
        /\ Len(occupations[v].cost) >= 3
        /\ Len(occupations[w].cost) >= 2

-----------------------------------------------------------------------------
(* C26 *)

\* The negated boundary literals of visit a at leave time t: of the point t
\* of its successor's ladder, or of TRUE when a is the last visit of its train
\* (t1_out_lit, t2_out_lit).
LeaveLits(a, t) ==
    IF NextVisit(a) = None THEN {Not(T)}
    ELSE LET o == occupations[Get(NextVisit(a))]
         IN {Not(o.delays[k][1]) : k \in {j \in 1..Len(o.delays) : o.delays[j][2] = t}}

\* The clauses in which the literal cached under key is false.
SelectedBy(key) == {cl \in clauses : Not(conflict_vars[key]) \in cl}

\* C26: conflict_vars holds both orderings of a visit pair with opposite
\* polarity, one variable serves one unordered pair only, and every clause a
\* choice literal guards reads the same way: under key (a, b) the literal
\* being true leaves the clause "a leaves at t or later => b is at t or
\* later", its negation being the literal of key (b, a).
C26_ChoiceLiteral ==
    /\ \A key \in DOMAIN conflict_vars :
          /\ key[1] # key[2]
          /\ <<key[2], key[1]>> \in DOMAIN conflict_vars
          /\ conflict_vars[<<key[2], key[1]>>] = Not(conflict_vars[key])
    /\ \A k1, k2 \in DOMAIN conflict_vars :
          (conflict_vars[k1] \in {conflict_vars[k2], Not(conflict_vars[k2])})
              => k2 \in {k1, <<k1[2], k1[1]>>}
    /\ \A key \in DOMAIN conflict_vars : \A cl \in SelectedBy(key) :
          \E k \in 1..Len(occupations[key[2]].delays) :
              \E c \in LeaveLits(key[1], occupations[key[2]].delays[k][2]) :
                  cl = {Not(conflict_vars[key]), c, occupations[key[2]].delays[k][1]}

\* A choice variable guards the clauses of two conflicts of its visit pair.
C26_Witness ==
    \E key \in DOMAIN conflict_vars :
        /\ Cardinality(SelectedBy(key)) >= 2
        /\ Cardinality(SelectedBy(<<key[2], key[1]>>)) >= 2

-----------------------------------------------------------------------------
(* C27 *)

\* The literal "time >= t" of a ladder: that of its first point at t or later.
AtOrAfter(d, t) == d[PartitionPoint(d, t) + 1][1]

\* The clause set entails l -> q: no assignment satisfies it with l and ~q.
Entails(l, q) ==
    Assignments(Assign(Assign(Assign(clauses, T), l), Not(q)), 2, nvars, {}) = {}

\* The ladder points (v, k) for which add_fixed_precedence_scl emits a row:
\* v has a successor and in_t + travel exceeds the successor's earliest time.
RowPoints ==
    {p \in VisitIds(problem) \X (1..MaxT + 2) :
        /\ NextVisit(p[1]) # None
        /\ p[2] < Len(occupations[p[1]].delays)
        /\ Add32(occupations[p[1]].delays[p[2]][2], VisitRec(p[1]).travel_time)
              > occupations[p[1] + 1].delays[1][2]}

\* C27: in Scl mode, at every SAT call, every ladder point (in_var, in_t) of a
\* visit with a successor whose in_t + travel exceeds the successor's
\* earliest time has its row: the clauses entail
\* in_var -> (successor time >= in_t + travel).
C27_SclRowsComplete ==
    (cfg.prec = "Scl" /\ pc = "solve") =>
        \A p \in RowPoints :
            LET o == occupations[p[1]]
            IN Entails(o.delays[p[2]][1],
                       AtOrAfter(occupations[p[1] + 1].delays,
                                 Add32(o.delays[p[2]][2], VisitRec(p[1]).travel_time)))

-----------------------------------------------------------------------------
(* C28 *)

\* Assignment a (a set of true variables) satisfies every clause of cls.
Sat(a, cls) == \A cl \in cls : \E l \in cl : Val(a, l)

\* The literals of the ladder of visit v and their negations.
LadderLits(v) ==
    UNION {{occupations[v].delays[i][1], Not(occupations[v].delays[i][1])} :
              i \in 1..Len(occupations[v].delays)}

\* The chain clauses time_point has added for the ladder of visit v.
LadderChain(v) == {cl \in clauses : cl \subseteq LadderLits(v)}

\* The ladder d as it was before the points outside K were inserted
\* (K a set of indices of d).
SubLadder(d, K) ==
    [j \in 1..Cardinality(K) |->
        d[CHOOSE i \in K : Cardinality({x \in K : x < i}) = j - 1]]

\* The earlier states of ladder d: the first point and the closing pair
\* with any of the points between.
EarlierLadders(d) ==
    {SubLadder(d, K \cup {1, Len(d)}) : K \in SUBSET (2..(Len(d) - 1))}

\* C28: under the chain clauses of the successor's ladder, the pairwise row
\* in_var /\ lit_j -> lit_{j+1}, j in [0, idx), and the compressed row
\* in_var -> lit_idx have the same satisfying assignments, for every ladder
\* point taken as in_var, every point of the successor's ladder taken as
\* req_t, and every earlier state of that ladder in which the row may have
\* been emitted.
C28_RowFormsEquivalent ==
    cfg.prec = "Scl" =>
        \A v \in VisitIds(problem) :
            NextVisit(v) # None =>
                LET chain == LadderChain(v + 1)
                    earlier == EarlierLadders(occupations[v + 1].delays)
                IN \A k \in 1..(Len(occupations[v].delays) - 1) :
                      LET in_var == occupations[v].delays[k][1]
                          free == (LadderLits(v + 1) \cup {in_var}) \cap (2..nvars)
                          chained == {a \in SUBSET free : Sat(a, chain)}
                      IN \A d0 \in earlier : \A idx \in 1..(Len(d0) - 2) :
                            \A a \in chained :
                                Sat(a, PairwiseRows(d0, in_var, idx))
                                    <=> Sat(a, {{Not(in_var), d0[idx + 1][1]}})

\* The solver holds a pairwise row of two clauses or more, and a clause of a
\* pairwise row whose two ladder literals are no longer neighbours.
C28_Witness ==
    /\ cfg.prec = "Scl"
    /\ \E v \in VisitIds(problem) :
          /\ NextVisit(v) # None
          /\ \E k \in 1..(Len(occupations[v].delays) - 1) :
                LET d == occupations[v + 1].delays
                    in_var == occupations[v].delays[k][1]
                IN /\ \E i \in 2..(Len(d) - 2) : \E j \in (i + 1)..(Len(d) - 1) :
                          {Not(in_var), Not(d[i][1]), d[j][1]} \in clauses
                   /\ \E i \in 1..(Len(d) - 3) : \E j \in (i + 2)..(Len(d) - 1) :
                          {Not(in_var), Not(d[i][1]), d[j][1]} \in clauses

-----------------------------------------------------------------------------
(* C29 *)

\* best_sol after the queued proposals q are received in order, oldest first.
RECURSIVE FifoBest(_, _)
FifoBest(best, q) ==
    IF q = <<>> THEN best
    ELSE FifoBest(IF best = None \/ Head(q).cost < Get(best).cost
                  THEN Some(Head(q)) ELSE best,
                  Tail(q))

\* C29: best_sol, once set, is never unset and its cost never increases; it
\* changes only in an iteration that follows a SAT result, and then to a
\* strictly smaller cost; sol_out only grows at its end or is emptied by such
\* an iteration, which leaves best_sol as the proposals received oldest first
\* leave it, unless the driver's own solution is strictly cheaper.
C29_BestSolMonotone ==
    [][/\ best_sol # None =>
             /\ best_sol' # None
             /\ Get(best_sol').cost <= Get(best_sol).cost
       /\ best_sol' # best_sol =>
             /\ pc = "top" /\ is_sat
             /\ best_sol # None => Get(best_sol').cost < Get(best_sol).cost
       /\ sol_out' # sol_out =>
             \/ /\ Len(sol_out') = Len(sol_out) + 1
                /\ SubSeq(sol_out', 1, Len(sol_out)) = sol_out
             \/ /\ pc = "top" /\ is_sat
                /\ sol_out' = <<>>
                /\ LET fb == FifoBest(best_sol, sol_out)
                   IN \/ best_sol' = fb
                      \/ /\ best_src' = "driver"
                         /\ Get(best_sol').sol = extract_solution(occupations')
                         /\ fb # None => Get(best_sol').cost < Get(fb).cost]_vars

\* Both proposals have been received and one of them, no cheaper than the
\* best solution, has not replaced it.
C29_Witness ==
    /\ pc = "encode"
    /\ n_proposals = 2
    /\ sol_out = <<>>
    /\ best_sol # None
    /\ \E i \in 1..2 :
          /\ cost(problem.heur[i]) >= Get(best_sol).cost
          /\ problem.heur[i] # Get(best_sol).sol

-----------------------------------------------------------------------------
(* C30 *)

\* C30: in UbSearch mode, whenever upper_bound is set, best_sol is set and
\* upper_bound = cost(best_sol) - 1; a run that returns Ok returns best_sol.
C30_UbTracksBest ==
    cfg.search = "UbSearch" =>
        /\ upper_bound # None =>
              /\ best_sol # None
              /\ Get(upper_bound) = Get(best_sol).cost - 1
        /\ result = "Ok" =>
              /\ best_sol # None
              /\ ret = best_sol

\* Proposals and driver solutions have both tightened the bound: the best
\* solution is the driver's, found after a proposal was received.
C30_Witness ==
    /\ cfg.search = "UbSearch"
    /\ upper_bound # None
    /\ n_proposals > 0
    /\ sol_out = <<>>
    /\ best_src = "driver"
    /\ Get(best_sol).cost > 0

-----------------------------------------------------------------------------
(* C31 *)

\* Every resource id the conflicts map yields for a visited resource is an
\* index of resource_visits.
IndexInRange(p) ==
    \A tr \in 1..NTrains(p) : \A vi \in 1..NVisitsOf(p, tr) :
        LET crs == ConflictsMap(p.conflicts, p.trains[tr][vi].resource_id)
        IN \A j \in 1..Len(crs) : crs[j] < ResourceVisitsLen(p)

\* C31: the driver's calls to time_point never trip an assertion: no pass
\* ends in a panic (on problems whose conflict pairs name indexed resources
\* only, where time_point is the one source of a panic), the seeding does not
\* either, and every ladder still starts at the visit's earliest time, ends
\* at the closing pair and is strictly increasing.
C31_TimePointPreconditions ==
    IndexInRange(problem) =>
        /\ result # "Panic"
        /\ ~InitEnc.panic
        /\ \A v \in VisitIds(problem) :
              LET d == occupations[v].delays
              IN /\ d[1] = <<T, VisitRec(v).earliest>>
                 /\ d[Len(d)] = <<F, I32Max>>
                 /\ \A i \in 1..(Len(d) - 1) : d[i][2] < d[i + 1][2]

\* A pass has refined a resource conflict of a visit whose successor still
\* sat before its travel time: the first train's second visit has the point
\* 5 and the two trains share a choice variable.
C31_Witness ==
    /\ cfg.problem = "TravelAndResource"
    /\ pc = "encode"
    /\ DOMAIN conflict_vars # {}
    /\ HasPoint(occupations[2], 5)
    /\ HasPoint(occupations[3], 1)

-----------------------------------------------------------------------------
(* C32 *)

\* C32: a conflict pair naming a resource that no visit uses, be its id below
\* or above the largest visited id, is read as a resource without visits:
\* the resource pass ends without an out-of-range access to resource_visits.
C32_UnusedResourceIsEmpty ==
    (\E j \in 1..Len(problem.conflicts) : \E i \in 1..2 :
         ResourceVisits(problem.conflicts[j][i]) = <<>>)
        => result # "Panic"

====
